---- MODULE Spec2Model ----
(***************************************************************************)
(* Weather Now (src/src/App.tsx): the App component's fetch pipeline.      *)
(*                                                                         *)
(* The React state of the component, the asynchronous invocations of       *)
(* fetchWeatherData / getCurrentLocation with their suspension points, and *)
(* the forecast normalisation loop (one sample per calendar date, at most  *)
(* four).                                                                  *)
(***************************************************************************)
EXTENDS Integers, Sequences, FiniteSets, TLC

VARIABLES
    weatherData,      \* useState<WeatherData | null>           (line 65)
    forecastData,     \* useState<ForecastData | null>          (line 66)
    loading,          \* useState<boolean>                      (line 67)
    error,            \* useState<string>                       (line 68)
    city,             \* useState<string>, the search box       (line 69)
    currentLocation,  \* useState<string>                       (lines 70-71)
    mounted,          \* whether the mount effect has run       (lines 234-236)
    geoSupported,     \* truthiness of navigator.geolocation    (line 164)
    tzOffsetMs,       \* the observer's offset from UTC, in ms  (Date, line 133)
    inv,              \* the invocations: locals and position of each
    completed,        \* ids of the invocations, in the order they completed
    normInput,        \* forecastResult.list handed to the loop (line 132)
    normOutput,       \* dailyForecasts after the loop          (line 141)
    normDone          \* whether the loop has run

vars == <<weatherData, forecastData, loading, error, city, currentLocation,
          mounted, geoSupported, tzOffsetMs, inv, completed,
          normInput, normOutput, normDone>>

displayVars == <<weatherData, forecastData, currentLocation>>
normVars == <<normInput, normOutput, normDone>>
envVars == <<geoSupported, tzOffsetMs>>

-----------------------------------------------------------------------------
(* Bounds of the model. *)

MaxInv == 2        \* invocations started in one run
MaxLen == 5        \* length of a raw forecast list given to the normaliser

-----------------------------------------------------------------------------
(* Values. *)

Null == << >>
Some(x) == <<x>>

DefaultCity == "Kuala Lumpur"

\* Timestamps are seconds since the epoch, as item.dt is.
SecPerHour == 60 * 60
MsPerDay == 24 * 60 * 60 * 1000
BaseDt == 10 * 24 * SecPerHour

\* Hours, from BaseDt, at which the upstream may report a sample.
SampleHours == {0, 3, 21, 24, 48, 72, 96}

\* Offsets of the observer's timezone: UTC-5, UTC, UTC+8.
TzOffsets == {0 - 5 * SecPerHour * 1000, 0, 8 * SecPerHour * 1000}

ForecastItem(h) == [dt |-> BaseDt + h * SecPerHour]

Items == {ForecastItem(h) : h \in SampleHours}

RawLists == UNION {[1..n -> Items] : n \in 0..MaxLen}

-----------------------------------------------------------------------------
(* The forecast normaliser: lines 129-138 and 191-200.                     *)

\* new Date(ms).toDateString(): the local calendar date of an instant,
\* as the number of the local day (weekday, month, day and year name it).
toDateString(ms) == (ms + tzOffsetMs) \div MsPerDay

\* item.dt * 1000, then the date
itemDate(item) == toDateString(item.dt * 1000)

\* The forEach callback with the set check dropped.
forEachCallback_NoSet(acc, item) ==
    IF Len(acc.dailyForecasts) < 4
    THEN [dailyForecasts |-> Append(acc.dailyForecasts, item),
          processedDates |-> acc.processedDates \union {itemDate(item)}]
    ELSE acc

\* The forEach callback pushing to the front of dailyForecasts.
forEachCallback_Unshift(acc, item) ==
    IF itemDate(item) \notin acc.processedDates /\ Len(acc.dailyForecasts) < 4
    THEN [dailyForecasts |-> <<item>> \o acc.dailyForecasts,
          processedDates |-> acc.processedDates \union {itemDate(item)}]
    ELSE acc

\* The forEach callback, lines 132-138 (and 194-200).
forEachCallback(acc, item) ==
    IF itemDate(item) \notin acc.processedDates /\ Len(acc.dailyForecasts) < 4
    THEN [dailyForecasts |-> Append(acc.dailyForecasts, item),
          processedDates |-> acc.processedDates \union {itemDate(item)}]
    ELSE acc

RECURSIVE forEach(_, _)
forEach(list, acc) ==
    IF list = << >> THEN acc
    ELSE forEach(Tail(list), forEachCallback(acc, Head(list)))

\* dailyForecasts after the loop, from empty dailyForecasts and processedDates.
processForecast(list) ==
    forEach(list, [dailyForecasts |-> << >>, processedDates |-> {}]).dailyForecasts

-----------------------------------------------------------------------------
(* Values of the pipeline. *)

\* What the user may have typed in the search box.
CityInputs == {"Xyzzyxville", " Paris "}

\* city.trim() on the texts of CityInputs (and on the empty box).
trim(text) ==
    CASE text = " Paris " -> "Paris"
      [] OTHER -> text

\* weatherResult.name: the upstream chooses the name it reports.
UpstreamNames == {"Kuala Lumpur", "Paris"}

\* forecastResult.list: raw lists the upstream may answer with.
ForecastLists ==
    { << >>,
      <<ForecastItem(0), ForecastItem(3), ForecastItem(21), ForecastItem(24)>>,
      <<ForecastItem(0), ForecastItem(3), ForecastItem(24), ForecastItem(48),
        ForecastItem(72), ForecastItem(96)>> }

\* position.coords of a fix.
Positions == {[latitude |-> 3, longitude |-> 101]}

\* How a request can fail: the status is not ok, or one of the two awaited
\* promises (fetch, then json) rejects with an Error of the runtime.
FailOutcomes == {"notok", "rejected"}

NameRequest(endpoint, name) ==
    [endpoint |-> endpoint, by |-> "q", q |-> name, lat |-> 0, lon |-> 0]

CoordRequest(endpoint, pos) ==
    [endpoint |-> endpoint, by |-> "coords", q |-> "",
     lat |-> pos.latitude, lon |-> pos.longitude]

\* The texts of the errors.
NotFoundMessage(cityName) == "Weather data not found for \"" \o cityName \o "\""
ForecastFailedMessage == "Failed to fetch forecast data"
GenericMessage == "Failed to fetch weather data. Please try again."
RejectionMessage == "Failed to fetch"
CoordFailedMessage ==
    "Failed to get weather for current location. Showing default location."
UnableMessage == "Unable to get your location. Showing default location."
UnsupportedMessage == "Geolocation is not supported by this browser."

\* What the try block of fetchWeatherData throws for a failed request.
thrown(endpoint, outcome, cityName) ==
    CASE outcome = "rejected" -> [isError |-> TRUE, message |-> RejectionMessage]
      [] outcome = "notok" /\ endpoint = "weather" ->
             [isError |-> TRUE, message |-> NotFoundMessage(cityName)]
      [] outcome = "notok" /\ endpoint = "forecast" ->
             [isError |-> TRUE, message |-> ForecastFailedMessage]

\* errorMessage of the catch clause, lines 145-148.
errorMessageOf(err) == IF err.isError THEN err.message ELSE GenericMessage

-----------------------------------------------------------------------------
(* Construction. *)

FreshInv ==
    [kind |-> "none", pc |-> "unstarted", cityName |-> "", geo |-> "",
     advisory |-> "", position |-> Null, sent |-> << >>, received |-> << >>,
     weatherResult |-> Null, forecastResult |-> Null, dropped |-> {},
     errorMessage |-> "", outcome |-> ""]

InitApp ==
    /\ weatherData = Null
    /\ forecastData = Null
    /\ loading = FALSE
    /\ error = ""
    /\ city = ""
    /\ currentLocation = DefaultCity
    /\ mounted = FALSE
    /\ inv = [i \in 1..MaxInv |-> FreshInv]
    /\ completed = << >>

\* The offset of the default city's timezone, UTC+8.
DefaultTzOffset == 8 * SecPerHour * 1000

Init ==
    /\ InitApp
    /\ geoSupported \in BOOLEAN
    /\ tzOffsetMs = DefaultTzOffset
    /\ normInput = << >>
    /\ normOutput = << >>
    /\ normDone = FALSE

-----------------------------------------------------------------------------
(* The busy flag and the error text, set in sequence within one handler.   *)

ui == [loading |-> loading, error |-> error]
setLoading(s, b) == [s EXCEPT !.loading = b]
setError(s, m) == [s EXCEPT !.error = m]

render(s) ==
    /\ loading' = s.loading
    /\ error' = s.error

\* fetchWeatherData, lines 100-101.
fetchWeatherDataEntry(s) == setError(setLoading(s, TRUE), "")

\* The catch clause leaving the error text alone.
catchFinally_Swallow(s, err) == setLoading(s, FALSE)

\* The catch and finally clauses with setLoading(false) left out.
catchFinally_NoFinally(s, err) == setError(s, errorMessageOf(err))

\* The catch and finally clauses of fetchWeatherData, lines 143-152.
catchFinally(s, err) == setLoading(setError(s, errorMessageOf(err)), FALSE)

\* The error callback calling fetchWeatherData before setError.
positionErrorHandler_Swapped(s) ==
    setError(fetchWeatherDataEntry(s), UnableMessage)

\* The error callback of getCurrentPosition, lines 214-218.
positionErrorHandler(s) == fetchWeatherDataEntry(setError(s, UnableMessage))

\* The else branch of getCurrentLocation, lines 220-223.
unsupportedHandler(s) == fetchWeatherDataEntry(setError(s, UnsupportedMessage))

\* The catch clause of the position callback, lines 206-212.
coordCatch(s) == fetchWeatherDataEntry(setError(s, CoordFailedMessage))

\* The invocation's locals as fetchWeatherData(cityName) issues its first
\* request, lines 103-108.
startFetchRec(rec, cityName) ==
    [rec EXCEPT !.pc = "await_weather",
                !.cityName = cityName,
                !.sent = Append(rec.sent, NameRequest("weather", cityName)),
                !.weatherResult = Null,
                !.forecastResult = Null]

\* The three setState calls writing only when no later invocation exists.
commitResult_IfLatest(i, w, daily) ==
    IF \E j \in (i + 1)..MaxInv : inv[j].pc # "unstarted"
    THEN UNCHANGED displayVars
    ELSE /\ weatherData' = Some(w)
         /\ forecastData' = Some([list |-> daily])
         /\ currentLocation' = w.name

\* The three setState calls with setCurrentLocation left out.
commitResult_NoLabel(i, w, daily) ==
    /\ weatherData' = Some(w)
    /\ forecastData' = Some([list |-> daily])
    /\ UNCHANGED currentLocation

\* Lines 140-142 (and 202-204).
commitResult(i, w, daily) ==
    /\ weatherData' = Some(w)
    /\ forecastData' = Some([list |-> daily])
    /\ currentLocation' = w.name

NextId == Cardinality({i \in 1..MaxInv : inv[i].pc # "unstarted"}) + 1
CanStart == NextId <= MaxInv

\* The reference of the response that answers the request just sent.
responseRef(i) == <<i, Len(inv[i].sent)>>

-----------------------------------------------------------------------------
(* The user's actions. *)

\* useEffect(() => { fetchWeatherData(); }, []), lines 234-236: cityName
\* defaults to currentLocation, line 98.
Mount ==
    /\ ~mounted
    /\ mounted' = TRUE
    /\ render(fetchWeatherDataEntry(ui))
    /\ inv' = [inv EXCEPT ![NextId] =
                  startFetchRec([FreshInv EXCEPT !.kind = "initial"], currentLocation)]
    /\ UNCHANGED <<displayVars, city, completed, envVars, normVars>>

\* onChange of the search box, lines 263-265.
TypeCity(text) ==
    /\ mounted
    /\ city # text
    /\ city' = text
    /\ UNCHANGED <<displayVars, loading, error, mounted, inv, completed,
                   envVars, normVars>>

\* handleSearch, lines 155-160; with nothing but blanks typed it does nothing.
handleSearch ==
    /\ mounted
    /\ CanStart
    /\ trim(city) # ""
    /\ render(fetchWeatherDataEntry(ui))
    /\ inv' = [inv EXCEPT ![NextId] =
                  startFetchRec([FreshInv EXCEPT !.kind = "search"], trim(city))]
    /\ city' = ""
    /\ UNCHANGED <<displayVars, mounted, completed, envVars, normVars>>

\* getCurrentLocation, lines 162-165 and 220-223; its button is disabled
\* while loading, line 276.
getCurrentLocation ==
    /\ mounted
    /\ CanStart
    /\ ~loading
    /\ IF geoSupported
       THEN /\ render(setLoading(ui, TRUE))
            /\ inv' = [inv EXCEPT ![NextId] =
                          [FreshInv EXCEPT !.kind = "geo",
                                           !.pc = "await_position",
                                           !.geo = "pending"]]
       ELSE /\ render(unsupportedHandler(setLoading(ui, TRUE)))
            /\ inv' = [inv EXCEPT ![NextId] =
                          startFetchRec([FreshInv EXCEPT !.kind = "geo",
                                                         !.geo = "unsupported",
                                                         !.advisory = UnsupportedMessage],
                                        DefaultCity)]
    /\ UNCHANGED <<displayVars, city, mounted, completed, envVars, normVars>>

-----------------------------------------------------------------------------
(* The geolocation provider answers. *)

\* The success callback up to its first await, lines 166-172.
PositionSuccess(i, pos) ==
    /\ inv[i].pc = "await_position"
    /\ inv' = [inv EXCEPT ![i] =
                  [@ EXCEPT !.pc = "await_coord_weather",
                            !.geo = "position",
                            !.position = Some(pos),
                            !.sent = Append(@, CoordRequest("weather", pos))]]
    /\ UNCHANGED <<displayVars, loading, error, city, mounted, completed,
                   envVars, normVars>>

\* The error callback, lines 214-218.
PositionError(i) ==
    /\ inv[i].pc = "await_position"
    /\ render(positionErrorHandler(ui))
    /\ inv' = [inv EXCEPT ![i] =
                  startFetchRec([@ EXCEPT !.geo = "error",
                                          !.advisory = UnableMessage],
                                DefaultCity)]
    /\ UNCHANGED <<displayVars, city, mounted, completed, envVars, normVars>>

-----------------------------------------------------------------------------
(* The upstream answers a request of fetchWeatherData.  fetch() and the    *)
(* response's json() are awaited in turn with no state read or written     *)
(* between them, so the pair is one step.                                  *)

\* Lines 108-120: the response is ok and parses; the forecast is requested.
WeatherOk(i, name) ==
    /\ inv[i].pc = "await_weather"
    /\ inv' = [inv EXCEPT ![i] =
                  [@ EXCEPT !.pc = "await_forecast",
                            !.received = Append(@, "ok"),
                            !.weatherResult = Some([name |-> name, ref |-> responseRef(i)]),
                            !.sent = Append(@, NameRequest("forecast", inv[i].cityName))]]
    /\ UNCHANGED <<displayVars, loading, error, city, mounted, completed,
                   envVars, normVars>>

\* Lines 108-152 with the check of weatherResponse.ok left out: a response
\* that is not ok is parsed and the forecast requested.
WeatherFail_NoOkCheck(i, outcome) ==
    /\ inv[i].pc = "await_weather"
    /\ IF outcome = "notok"
       THEN /\ inv' = [inv EXCEPT ![i] =
                          [@ EXCEPT !.pc = "await_forecast",
                                    !.received = Append(@, outcome),
                                    !.weatherResult = Some([name |-> "", ref |-> responseRef(i)]),
                                    !.sent = Append(@, NameRequest("forecast", inv[i].cityName))]]
            /\ UNCHANGED <<loading, error, completed>>
       ELSE LET err == thrown("weather", outcome, inv[i].cityName) IN
            /\ render(catchFinally(ui, err))
            /\ inv' = [inv EXCEPT ![i] =
                          [@ EXCEPT !.pc = "done",
                                    !.received = Append(@, outcome),
                                    !.errorMessage = errorMessageOf(err),
                                    !.outcome = "error"]]
            /\ completed' = Append(completed, i)
    /\ UNCHANGED <<displayVars, city, mounted, envVars, normVars>>

\* Lines 108-114 failing, then 143-152.
WeatherFail(i, outcome) ==
    /\ inv[i].pc = "await_weather"
    /\ LET err == thrown("weather", outcome, inv[i].cityName) IN
       /\ render(catchFinally(ui, err))
       /\ inv' = [inv EXCEPT ![i] =
                     [@ EXCEPT !.pc = "done",
                               !.received = Append(@, outcome),
                               !.errorMessage = errorMessageOf(err),
                               !.outcome = "error"]]
    /\ completed' = Append(completed, i)
    /\ UNCHANGED <<displayVars, city, mounted, envVars, normVars>>

\* Lines 120-142, then 150-152.
ForecastOk(i, list) ==
    /\ inv[i].pc = "await_forecast"
    /\ commitResult(i, inv[i].weatherResult[1], processForecast(list))
    /\ render(setLoading(ui, FALSE))
    /\ inv' = [inv EXCEPT ![i] =
                  [@ EXCEPT !.pc = "done",
                            !.received = Append(@, "ok"),
                            !.forecastResult = Some([list |-> list]),
                            !.outcome = "ok"]]
    /\ completed' = Append(completed, i)
    /\ UNCHANGED <<city, mounted, envVars, normVars>>

\* Lines 120-126 failing, then 143-152.
ForecastFail(i, outcome) ==
    /\ inv[i].pc = "await_forecast"
    /\ LET err == thrown("forecast", outcome, inv[i].cityName) IN
       /\ render(catchFinally(ui, err))
       /\ inv' = [inv EXCEPT ![i] =
                     [@ EXCEPT !.pc = "done",
                               !.received = Append(@, outcome),
                               !.dropped = @ \union {inv[i].weatherResult[1]},
                               !.errorMessage = errorMessageOf(err),
                               !.outcome = "error"]]
    /\ completed' = Append(completed, i)
    /\ UNCHANGED <<displayVars, city, mounted, envVars, normVars>>

-----------------------------------------------------------------------------
(* The upstream answers a request of the position callback. *)

\* Lines 172-182.
CoordWeatherOk(i, name) ==
    /\ inv[i].pc = "await_coord_weather"
    /\ inv' = [inv EXCEPT ![i] =
                  [@ EXCEPT !.pc = "await_coord_forecast",
                            !.received = Append(@, "ok"),
                            !.weatherResult = Some([name |-> name, ref |-> responseRef(i)]),
                            !.sent = Append(@, CoordRequest("forecast", inv[i].position[1]))]]
    /\ UNCHANGED <<displayVars, loading, error, city, mounted, completed,
                   envVars, normVars>>

\* Lines 172-178 failing, then 206-212.
CoordWeatherFail(i, outcome) ==
    /\ inv[i].pc = "await_coord_weather"
    /\ render(coordCatch(ui))
    /\ inv' = [inv EXCEPT ![i] =
                  startFetchRec([@ EXCEPT !.received = Append(@, outcome),
                                          !.advisory = CoordFailedMessage],
                                DefaultCity)]
    /\ UNCHANGED <<displayVars, city, mounted, completed, envVars, normVars>>

\* Lines 182-205.
CoordForecastOk(i, list) ==
    /\ inv[i].pc = "await_coord_forecast"
    /\ commitResult(i, inv[i].weatherResult[1], processForecast(list))
    /\ render(setLoading(ui, FALSE))
    /\ inv' = [inv EXCEPT ![i] =
                  [@ EXCEPT !.pc = "done",
                            !.received = Append(@, "ok"),
                            !.forecastResult = Some([list |-> list]),
                            !.outcome = "ok"]]
    /\ completed' = Append(completed, i)
    /\ UNCHANGED <<city, mounted, envVars, normVars>>

\* Lines 182-188 failing, then 206-212.
CoordForecastFail(i, outcome) ==
    /\ inv[i].pc = "await_coord_forecast"
    /\ render(coordCatch(ui))
    /\ inv' = [inv EXCEPT ![i] =
                  startFetchRec([@ EXCEPT !.received = Append(@, outcome),
                                          !.dropped = @ \union {inv[i].weatherResult[1]},
                                          !.advisory = CoordFailedMessage],
                                DefaultCity)]
    /\ UNCHANGED <<displayVars, city, mounted, completed, envVars, normVars>>

-----------------------------------------------------------------------------

Next ==
    \/ Mount
    \/ \E text \in CityInputs : TypeCity(text)
    \/ handleSearch
    \/ getCurrentLocation
    \/ \E i \in 1..MaxInv :
           \/ \E pos \in Positions : PositionSuccess(i, pos)
           \/ PositionError(i)
           \/ \E name \in UpstreamNames : WeatherOk(i, name)
           \/ \E o \in FailOutcomes : WeatherFail(i, o)
           \/ \E list \in ForecastLists : ForecastOk(i, list)
           \/ \E o \in FailOutcomes : ForecastFail(i, o)
           \/ \E name \in UpstreamNames : CoordWeatherOk(i, name)
           \/ \E o \in FailOutcomes : CoordWeatherFail(i, o)
           \/ \E list \in ForecastLists : CoordForecastOk(i, list)
           \/ \E o \in FailOutcomes : CoordForecastFail(i, o)

Spec == Init /\ [][Next]_vars

-----------------------------------------------------------------------------
(* The normaliser on its own: every raw list up to MaxLen, every offset.   *)

InitNorm ==
    /\ InitApp
    /\ geoSupported = TRUE
    /\ tzOffsetMs \in TzOffsets
    /\ normInput \in RawLists
    /\ normOutput = << >>
    /\ normDone = FALSE

RunNormalizer ==
    /\ ~normDone
    /\ normOutput' = processForecast(normInput)
    /\ normDone' = TRUE
    /\ UNCHANGED <<weatherData, forecastData, loading, error, city,
                   currentLocation, mounted, geoSupported, tzOffsetMs, inv,
                   completed, normInput>>

NextNorm == RunNormalizer

SpecNorm == InitNorm /\ [][NextNorm]_vars

-----------------------------------------------------------------------------
(* Helpers of the claims about the normaliser. *)

Min(a, b) == IF a < b THEN a ELSE b

SortedByDt(list) == \A k \in 1..(Len(list) - 1) : list[k].dt <= list[k + 1].dt

DatesOf(list) == {itemDate(list[k]) : k \in 1..Len(list)}

\* The first index of list whose sample falls on date d.
FirstIdx(list, d) ==
    CHOOSE j \in 1..Len(list) :
        /\ itemDate(list[j]) = d
        /\ \A m \in 1..(j - 1) : itemDate(list[m]) # d

\* C1: once the loop has run on a list sorted ascending by timestamp, the
\* output has min(4, number of distinct calendar dates of the input) entries
\* and the dates of the output are strictly increasing.
C1_LengthAndOrder ==
    (normDone /\ SortedByDt(normInput)) =>
        /\ Len(normOutput) = Min(4, Cardinality(DatesOf(normInput)))
        /\ \A k \in 1..(Len(normOutput) - 1) :
               itemDate(normOutput[k]) < itemDate(normOutput[k + 1])

\* C1 witness: a sorted input of more than four dates has been normalised
\* to four entries.
C1_Witness ==
    /\ normDone
    /\ SortedByDt(normInput)
    /\ Cardinality(DatesOf(normInput)) > 4
    /\ Len(normOutput) = 4

\* C2: once the loop has run, every output entry is the input's first sample
\* (in raw order) of its date, the entries keep the input's order, an empty
\* input gives an empty output and a one-date input gives its first sample.
C2_FirstSamples ==
    normDone =>
        /\ \A k \in 1..Len(normOutput) :
               /\ itemDate(normOutput[k]) \in DatesOf(normInput)
               /\ normOutput[k] = normInput[FirstIdx(normInput, itemDate(normOutput[k]))]
        /\ \A k \in 1..(Len(normOutput) - 1) :
               FirstIdx(normInput, itemDate(normOutput[k]))
                   < FirstIdx(normInput, itemDate(normOutput[k + 1]))
        /\ (normInput = << >> => normOutput = << >>)
        /\ (Cardinality(DatesOf(normInput)) = 1 => normOutput = <<normInput[1]>>)

\* C2 witness: an unsorted input with two samples of one date, the later
\* sample first, has been normalised to more than one entry.
C2_Witness ==
    /\ normDone
    /\ Len(normOutput) >= 2
    /\ \E a, b \in 1..Len(normInput) :
           /\ a < b
           /\ itemDate(normInput[a]) = itemDate(normInput[b])
           /\ normInput[a].dt > normInput[b].dt
           /\ normOutput[1] = normInput[a]

-----------------------------------------------------------------------------
(* Every issued network and geolocation request eventually gets an answer. *)

Respond(i) ==
    \/ \E pos \in Positions : PositionSuccess(i, pos)
    \/ PositionError(i)
    \/ \E name \in UpstreamNames : WeatherOk(i, name)
    \/ \E o \in FailOutcomes : WeatherFail(i, o)
    \/ \E list \in ForecastLists : ForecastOk(i, list)
    \/ \E o \in FailOutcomes : ForecastFail(i, o)
    \/ \E name \in UpstreamNames : CoordWeatherOk(i, name)
    \/ \E o \in FailOutcomes : CoordWeatherFail(i, o)
    \/ \E list \in ForecastLists : CoordForecastOk(i, list)
    \/ \E o \in FailOutcomes : CoordForecastFail(i, o)

FairSpec == Spec /\ \A i \in 1..MaxInv : WF_vars(Respond(i))

-----------------------------------------------------------------------------
(* Helpers of the claims about the pipeline. *)

Active(i) == inv[i].pc \notin {"unstarted", "done"}
Quiescent == \A i \in 1..MaxInv : ~Active(i)
Completes(i) == inv[i].pc # "done" /\ inv'[i].pc = "done"
GeoFailed(rec) == rec.geo \in {"error", "unsupported"}
Last(seq) == seq[Len(seq)]

\* Some step of invocation i has failed.
Failed(i) ==
    \/ GeoFailed(inv[i])
    \/ \E k \in 1..Len(inv[i].received) : inv[i].received[k] # "ok"

IsOk(i) == inv[i].outcome = "ok"
OkCompleted == SelectSeq(completed, IsOk)

\* What a successful invocation i writes to the result slot.
ResultOf(i) ==
    <<inv[i].weatherResult,
      Some([list |-> processForecast(inv[i].forecastResult[1].list)]),
      inv[i].weatherResult[1].name>>

\* C3: a name-based current-conditions request answered with a non-success
\* status ends its invocation with the error naming the requested location,
\* shown as the step is taken, and no forecast request by name and no
\* further request of the invocation is ever issued.
C3_NotFoundIsTerminal ==
    /\ [](\A i \in 1..MaxInv : \A k \in 1..Len(inv[i].received) :
            (/\ inv[i].sent[k].endpoint = "weather"
             /\ inv[i].sent[k].by = "q"
             /\ inv[i].received[k] = "notok")
            => /\ inv[i].pc = "done"
               /\ inv[i].outcome = "error"
               /\ inv[i].errorMessage =
                      "Weather data not found for \"" \o inv[i].sent[k].q \o "\""
               /\ Len(inv[i].sent) = k
               /\ \A m \in 1..Len(inv[i].sent) :
                      ~(inv[i].sent[m].endpoint = "forecast" /\ inv[i].sent[m].by = "q"))
    /\ [][\A i \in 1..MaxInv :
            (/\ inv[i].pc = "await_weather"
             /\ Completes(i)
             /\ Last(inv'[i].received) = "notok")
            => /\ error' = "Weather data not found for \"" \o inv[i].cityName \o "\""
               /\ UNCHANGED displayVars]_vars

\* C3 witness: the search for Xyzzyxville was answered with a non-success
\* status.
C3_Witness ==
    \E i \in 1..MaxInv :
        /\ inv[i].kind = "search"
        /\ inv[i].cityName = "Xyzzyxville"
        /\ inv[i].received = <<"notok">>
        /\ inv[i].pc = "done"

\* C4: after a geolocation error or with geolocation unsupported, the
\* invocation never issues a request by coordinates; the step that handles
\* the failure leaves the state a direct fetchWeatherData("Kuala Lumpur")
\* entered from the same state leaves, and the step that completes the
\* invocation writes what a name-based fetch writes for the same answers.
C4_FallbackIsDirectFetch ==
    /\ [](\A i \in 1..MaxInv :
            GeoFailed(inv[i]) =>
                \A k \in 1..Len(inv[i].sent) : inv[i].sent[k].by = "q")
    /\ [][\A i \in 1..MaxInv :
          /\ ((~GeoFailed(inv[i]) /\ GeoFailed(inv'[i]))
            => /\ loading' = TRUE
               /\ error' = ""
               /\ UNCHANGED displayVars
               /\ [inv'[i] EXCEPT !.kind = "search", !.geo = "", !.advisory = ""]
                      = [FreshInv EXCEPT !.kind = "search",
                                         !.pc = "await_weather",
                                         !.cityName = "Kuala Lumpur",
                                         !.sent = <<NameRequest("weather", "Kuala Lumpur")>>])
          /\ ((GeoFailed(inv[i]) /\ Completes(i))
            => /\ loading' = FALSE
               /\ IF Last(inv'[i].received) = "ok"
                  THEN /\ weatherData' = inv[i].weatherResult
                       /\ weatherData'[1].ref = <<i, 1>>
                       /\ forecastData' =
                              Some([list |-> processForecast(inv'[i].forecastResult[1].list)])
                       /\ currentLocation' = weatherData'[1].name
                       /\ error' = error
                  ELSE /\ UNCHANGED displayVars
                       /\ error' = errorMessageOf(
                              thrown(Last(inv[i].sent).endpoint,
                                     Last(inv'[i].received), "Kuala Lumpur")))]_vars

\* C4 witness: a geolocation error was followed by a successful fallback.
C4_Witness ==
    \E i \in 1..MaxInv :
        /\ inv[i].geo = "error"
        /\ inv[i].pc = "done"
        /\ inv[i].outcome = "ok"
        /\ weatherData = inv[i].weatherResult

\* C5 as stated: once a fetch has completed and none is in flight, either
\* the conditions and forecast are present and the error is empty, or the
\* error is set and neither conditions nor forecast are present.
C5_ExactlyOneArm ==
    (completed # << >> /\ Quiescent) =>
        \/ (weatherData # Null /\ forecastData # Null /\ error = "")
        \/ (error # "" /\ weatherData = Null /\ forecastData = Null)

\* C5 as amended: the step that completes a fetch writes exactly one arm,
\* the conditions with the forecast (error text untouched) or a non-empty
\* error text (conditions and forecast untouched); conditions and forecast
\* are present or absent together; and with no fetch in flight after a
\* completed one the two arms are never both absent.
C5_OneArmWritten ==
    /\ [][\A i \in 1..MaxInv :
            Completes(i) =>
                \/ /\ inv'[i].outcome = "ok"
                   /\ weatherData' = inv[i].weatherResult
                   /\ weatherData' # Null
                   /\ forecastData' # Null
                   /\ error' = error
                \/ /\ inv'[i].outcome = "error"
                   /\ error' = inv'[i].errorMessage
                   /\ error' # ""
                   /\ UNCHANGED displayVars]_vars
    /\ []((weatherData = Null) <=> (forecastData = Null))
    /\ []((completed # << >> /\ Quiescent) => (weatherData # Null \/ error # ""))

\* C5 witness: a failed fetch completed after a successful one, so both the
\* conditions and the error are displayed.
C5_Witness ==
    /\ Quiescent
    /\ Len(completed) = 2
    /\ inv[completed[1]].outcome = "ok"
    /\ inv[completed[2]].outcome = "error"
    /\ weatherData # Null
    /\ error # ""

\* C6 as stated: after each step of a geolocation-triggered invocation that
\* has fallen back to the default location, from the failure up to the
\* fallback's success, the error displayed is the text set for the failure.
C6_AdvisoryStaysDisplayed ==
    [][\A i \in 1..MaxInv :
         (/\ inv'[i] # inv[i]
          /\ inv'[i].advisory # ""
          /\ inv'[i].outcome # "error")
         => error' = inv'[i].advisory]_vars

\* C7: the result slot holds what the successful invocation that completed
\* last wrote, whichever invocation was started last.
C7_LastCompletionWins ==
    OkCompleted # << >> =>
        <<weatherData, forecastData, currentLocation>> = ResultOf(Last(OkCompleted))

\* C7 witness: the invocation started first completed after the one started
\* second, both with success, and its result is the one displayed at rest.
C7_Witness ==
    /\ Quiescent
    /\ completed = <<2, 1>>
    /\ IsOk(1) /\ IsOk(2)
    /\ weatherData = inv[1].weatherResult
    /\ weatherData # inv[2].weatherResult

\* C8: the conditions, the forecast and the label displayed are all initial
\* or all those of one successful invocation, the label being the name in
\* the conditions and the forecast the normalisation of that invocation's
\* forecast answer; conditions whose forecast request failed are never
\* displayed.
C8_OneInvocationDisplayed ==
    /\ \/ (weatherData = Null /\ forecastData = Null /\ currentLocation = "Kuala Lumpur")
       \/ \E i \in 1..MaxInv :
              /\ inv[i].pc = "done"
              /\ IsOk(i)
              /\ weatherData = inv[i].weatherResult
              /\ forecastData =
                     Some([list |-> processForecast(inv[i].forecastResult[1].list)])
              /\ currentLocation = weatherData[1].name
    /\ \A i \in 1..MaxInv : \A w \in inv[i].dropped : weatherData # Some(w)

\* C8 witness: one invocation's result is displayed, under a name other than
\* the initial label, while the other's forecast request has failed.
C8_Witness ==
    \E i, j \in 1..MaxInv :
        /\ i # j
        /\ IsOk(i)
        /\ weatherData = inv[i].weatherResult
        /\ currentLocation = "Paris"
        /\ inv[j].dropped # {}

\* C9: with every request answered, an invocation in which a step failed
\* completes with loading false; loading is false whenever no invocation has
\* a request outstanding; and every failure is turned into the error of the
\* invocation or into the advisory text of the fallback.
C9_FailureLeavesIdle ==
    /\ [](Quiescent => ~loading)
    /\ [](\A i \in 1..MaxInv : \A k \in 1..Len(inv[i].received) :
            inv[i].received[k] # "ok" =>
                \/ inv[i].advisory # ""
                \/ (inv[i].pc = "done" /\ inv[i].outcome = "error"
                    /\ inv[i].errorMessage # ""))
    /\ \A i \in 1..MaxInv :
           [](Failed(i) => <>(inv[i].pc = "done" /\ ~loading))

\* C9 witness: a geolocation error whose fallback failed too, at rest.
C9_Witness ==
    /\ Quiescent
    /\ ~loading
    /\ \E i \in 1..MaxInv :
           /\ inv[i].geo = "error"
           /\ inv[i].outcome = "error"

\* C10 as stated: while an invocation has a request outstanding, loading is
\* true.
C10_BusyWhileOutstanding ==
    (\E i \in 1..MaxInv : Active(i)) => loading

====
